---- MODULE Spec2Model ----
(***************************************************************************)
(* Model of backend/server.js (Thorkee/LLMFGO): the startup sequence that  *)
(* selects the storage backend, the Express route stack it registers, and  *)
(* the inline fallback file routes (list, download, clear-cache) together  *)
(* with the health endpoint.                                               *)
(*                                                                         *)
(* A file name is a tuple of characters, a path is a tuple of names        *)
(* relative to __dirname.  The compiled route modules under ./dist are not *)
(* part of the sources; the file router they export is modelled from the   *)
(* specification of the File Operations Facade.                            *)
(***************************************************************************)
EXTENDS Integers, Sequences, FiniteSets, TLC

\* Number of ordinary (deletable) file names the stores may hold.
MaxPlain == 3

\* ------------------------------------------------------------------ names
Plain(i) == [j \in 1..i |-> "f"]
PlainNames == { Plain(i) : i \in 1..MaxPlain }
Hidden == <<".", "h">>
Test == <<"t", "e", "s", "t">>
Sub == <<"s", "u", "b">>
Missing == <<"m">>
DotDot == <<".", ".">>
ServerJs == <<"s", "e", "r", "v", "e", "r", ".", "j", "s">>
Uploads == <<"u", "p", "l", "o", "a", "d", "s">>

\* Every name a store root may hold; Sub is the one that is a directory.
Names == PlainNames \cup {Hidden, Test, Sub}
Dirs == {Sub}

\* readdirSync returns the entries in directory order: this order on one
\* disk, the reverse of it on another.
Order == <<Hidden>> \o [i \in 1..MaxPlain |-> Plain(i)] \o <<Sub, Test>>

Reverse(s) == [i \in 1..Len(s) |-> s[Len(s) + 1 - i]]

Orders == {Order, Reverse(Order)}

\* uploadsDir = path.join(__dirname, 'uploads')
uploadsDir == <<Uploads>>

\* String.prototype.startsWith('.')
StartsWithDot(n) == Len(n) > 0 /\ n[1] = "."

RECURSIVE Normalize(_, _)
\* path.normalize: ".." removes the segment before it
Normalize(done, rest) ==
  IF rest = <<>> THEN done
  ELSE IF Head(rest) = DotDot
       THEN IF done = <<>> THEN Normalize(<<DotDot>>, Tail(rest))
            ELSE Normalize(SubSeq(done, 1, Len(done) - 1), Tail(rest))
       ELSE Normalize(Append(done, Head(rest)), Tail(rest))

\* path.join(dir, filename): concatenate, then normalize
PathJoin(dir, filename) == Normalize(<<>>, dir \o filename)

\* The request names GET /api/files/download/:filename is tried with
\* (the parameter is URL-decoded, so it may hold "/" and "..").
Filenames == { <<Plain(1)>>, <<Missing>>, <<DotDot, ServerJs>> }

VARIABLES
  pc,                      \* position of startServer
  catchAll,                \* app.get('*') registered at module load
  blobStorageInitialized,  \* the backend flag
  initAttempts,            \* number of initializeStorage() calls made
  storageOk,               \* outcome of initializeStorage(): "none", "ok", "fail"
  cosmosOk,                \* outcome of initializeCosmosDb()
  routesLoad,              \* outcome of the route import block
  stack,                   \* Express router stack, in registration order
  local,                   \* Local Store: [root: BOOLEAN, entries: SUBSET Names]
  remote,                  \* Remote Store, same shape
  pending,                 \* transfer started by res.download, not yet finished
  resp,                    \* the last response sent
  run,                     \* inputs of the last list or clear-cache request
  order,                   \* the order readdirSync returns entries in
  initialLocal,            \* entries of the uploads directory at process start
  totalDeleted             \* sum of deletedCount over all clear-cache responses

vars == <<pc, catchAll, blobStorageInitialized, initAttempts, storageOk, cosmosOk,
          routesLoad, stack, local, remote, pending, resp, run, order, initialLocal,
          totalDeleted>>

startupVars == <<pc, catchAll, blobStorageInitialized, initAttempts, storageOk,
                 cosmosOk, routesLoad, stack, order, initialLocal>>

NoResp == [op |-> "none", by |-> "none", store |-> "none", filename |-> <<>>,
           inStore |-> FALSE, rootMissing |-> FALSE, status |-> 0, fields |-> {},
           message |-> "", deletedCount |-> 0, errors |-> <<>>, files |-> <<>>,
           bodyStatus |-> "", blobStorage |-> "", error |-> "", content |-> ""]

NoTransfer == [active |-> FALSE, filename |-> <<>>, path |-> <<>>, inStore |-> FALSE,
               store |-> "none"]

NoRun == [listed |-> <<>>, outcome |-> <<>>, before |-> {}, after |-> {},
          listFail |-> FALSE, statFail |-> {}]

\* ---------------------------------------------------------------- startup
\* Store contents the service is started on: a root holding every kind of
\* entry (requests and outside removal lead from it to the smaller ones).
InitialStores == {Names}

\* server.js:11-55 run at module load: the uploads directory is created if it
\* is missing, and in production with a frontend build the catch-all GET route
\* is registered before startServer() registers anything.
Init ==
  /\ pc = "initStorage"
  /\ catchAll \in BOOLEAN
  /\ stack = IF catchAll THEN <<"catchAll">> ELSE <<>>
  /\ blobStorageInitialized = FALSE
  /\ initAttempts = 0
  /\ storageOk = "none"
  /\ cosmosOk = "none"
  /\ routesLoad = "none"
  /\ \E S \in InitialStores :
        local = [root |-> TRUE, entries |-> S] /\ initialLocal = S
  /\ order \in Orders
  /\ totalDeleted = 0
  /\ remote = [root |-> TRUE, entries |-> Names]
  /\ pending = NoTransfer
  /\ resp = NoResp
  /\ run = NoRun

\* InitializeStorage with the catch block rethrowing: startServer() rejects
\* and the process exits.
InitializeStorageFatal(ok) ==
  /\ pc = "initStorage"
  /\ initAttempts' = initAttempts + 1
  /\ storageOk' = IF ok THEN "ok" ELSE "fail"
  /\ blobStorageInitialized' = IF ok THEN TRUE ELSE blobStorageInitialized
  /\ pc' = IF ok THEN "initCosmos" ELSE "exited"
  /\ UNCHANGED <<catchAll, cosmosOk, routesLoad, stack, local, remote, pending, resp, run, order,
                 initialLocal, totalDeleted>>

\* try { await initializeStorage(); blobStorageInitialized = true } catch { log }
InitializeStorage(ok) ==
  /\ pc = "initStorage"
  /\ initAttempts' = initAttempts + 1
  /\ storageOk' = IF ok THEN "ok" ELSE "fail"
  /\ blobStorageInitialized' = IF ok THEN TRUE ELSE blobStorageInitialized
  /\ pc' = "initCosmos"
  /\ UNCHANGED <<catchAll, cosmosOk, routesLoad, stack, local, remote, pending, resp, run, order,
                 initialLocal, totalDeleted>>

\* InitializeCosmosDb with the catch block clearing the backend flag.
InitializeCosmosDbResetsFlag(ok) ==
  /\ pc = "initCosmos"
  /\ cosmosOk' = IF ok THEN "ok" ELSE "fail"
  /\ blobStorageInitialized' = IF ok THEN blobStorageInitialized ELSE FALSE
  /\ pc' = "loadRoutes"
  /\ UNCHANGED <<catchAll, initAttempts, storageOk, routesLoad,
                 stack, local, remote, pending, resp, run, order,
                 initialLocal, totalDeleted>>

\* try { await initializeCosmosDb() } catch { log }
InitializeCosmosDb(ok) ==
  /\ pc = "initCosmos"
  /\ cosmosOk' = IF ok THEN "ok" ELSE "fail"
  /\ pc' = "loadRoutes"
  /\ UNCHANGED <<catchAll, blobStorageInitialized, initAttempts, storageOk, routesLoad,
                 stack, local, remote, pending, resp, run, order,
                 initialLocal, totalDeleted>>

\* The three fallback routes, in the order the catch block registers them.
FallbackRoutes == <<"fbList", "fbDownload", "fbClearCache">>

\* Outcomes of the route import block: both modules load and mount ("ok"); a
\* require() throws before anything is mounted ("requireFail"); app.use of the
\* auth router throws after the file router was mounted ("authMountFail").
LoadOutcomes == {"ok", "requireFail", "authMountFail"}

\* try { require...; app.use(fileRoutes); app.use(authRoutes) } catch { fallback routes }
LoadRoutes(outcome) ==
  /\ pc = "loadRoutes"
  /\ routesLoad' = outcome
  /\ stack' = CASE outcome = "ok" -> stack \o <<"fileRoutes", "authRoutes">>
                [] outcome = "requireFail" -> stack \o FallbackRoutes
                [] outcome = "authMountFail" -> stack \o <<"fileRoutes">> \o FallbackRoutes
  /\ pc' = "listen"
  /\ UNCHANGED <<catchAll, blobStorageInitialized, initAttempts, storageOk, cosmosOk,
                 local, remote, pending, resp, run, order,
                 initialLocal, totalDeleted>>

\* Listen with app.listen called at module load, before startServer runs.
ListenEarly ==
  /\ pc \in {"initStorage", "listen"}
  /\ stack' = Append(stack, "health")
  /\ pc' = "listening"
  /\ UNCHANGED <<catchAll, blobStorageInitialized, initAttempts, storageOk, cosmosOk,
                 routesLoad, local, remote, pending, resp, run, order,
                 initialLocal, totalDeleted>>

\* app.get('/api/health', ...); app.listen(PORT, ...)
Listen ==
  /\ pc = "listen"
  /\ stack' = Append(stack, "health")
  /\ pc' = "listening"
  /\ UNCHANGED <<catchAll, blobStorageInitialized, initAttempts, storageOk, cosmosOk,
                 routesLoad, local, remote, pending, resp, run, order,
                 initialLocal, totalDeleted>>

\* --------------------------------------------------------------- dispatch
\* Which requests a layer of the router stack answers.  The catch-all is
\* app.get('*'): it matches every GET request, never the POST of clear-cache.
Matches(layer, op) ==
  CASE layer = "catchAll" -> op \in {"list", "download", "health"}
    [] layer = "fileRoutes" -> op \in {"list", "download", "clear"}
    [] layer = "authRoutes" -> FALSE
    [] layer = "fbList" -> op = "list"
    [] layer = "fbDownload" -> op = "download"
    [] layer = "fbClearCache" -> op = "clear"
    [] layer = "health" -> op = "health"

\* Express hands a request to the first matching layer in registration order.
Handler(op) ==
  LET hits == { i \in 1..Len(stack) : Matches(stack[i], op) }
  IN IF hits = {} THEN "none"
     ELSE stack[CHOOSE i \in hits : \A j \in hits : i <= j]

Mounted(layer) == \E i \in 1..Len(stack) : stack[i] = layer

\* The backend the selector chose: the flag read by the health endpoint.
ActiveBackend == IF blobStorageInitialized THEN "Remote" ELSE "Local"

StoreOf(which) == IF which = "Remote" THEN remote ELSE local

\* ------------------------------------------------------------- filesystem
\* fs.readdirSync(root): the entries present, in directory order.
ReadDir(store) == SelectSeq(order, LAMBDA n : n \in store.entries)

\* fs.existsSync(path) on the local disk: __dirname and server.js are there,
\* the uploads directory and its entries as the Local Store has them.
ExistsSync(path) ==
  \/ path = <<>>
  \/ path = <<ServerJs>>
  \/ path = uploadsDir /\ local.root
  \/ Len(path) = 2 /\ path[1] = Uploads /\ local.root /\ path[2] \in local.entries

\* stats.isDirectory()
IsDirectory(n) == n \in Dirs

\* Whether path is a regular file that can be streamed from the given store.
IsFileAt(which, path) ==
  IF which = "Remote"
  THEN Len(path) = 2 /\ path[1] = Uploads /\ remote.root
       /\ path[2] \in remote.entries /\ ~IsDirectory(path[2])
  ELSE \/ path = <<ServerJs>>
       \/ Len(path) = 2 /\ path[1] = Uploads /\ local.root
          /\ path[2] \in local.entries /\ ~IsDirectory(path[2])

\* Whether the request name is an entry of the store root.
InStore(store, filename) ==
  store.root /\ Len(filename) = 1 /\ filename[1] \in store.entries

\* ----------------------------------------------------------------- health
\* blobStorageInitialized ? 'connected' : 'fallback'
BlobStorageField == IF blobStorageInitialized THEN "connected" ELSE "fallback"

\* res.status(200).json({ status: 'ok', blobStorage: ... })
HealthResponse ==
  [NoResp EXCEPT !.op = "health", !.by = "health", !.status = 200,
                 !.fields = {"status", "blobStorage"}, !.bodyStatus = "ok",
                 !.blobStorage = BlobStorageField]

\* GET /api/health handled by the health route
HealthCheck ==
  /\ pc = "listening"
  /\ Handler("health") = "health"
  /\ resp' = HealthResponse
  /\ run' = NoRun
  /\ UNCHANGED <<startupVars, local, remote, pending, totalDeleted>>

\* -------------------------------------------------------------- catch-all
\* app.get('*'): req.url starts with '/api', so 404 with the text 'Not found'
CatchAllResponse(op, filename, which) ==
  [NoResp EXCEPT !.op = op, !.by = "catchAll", !.filename = filename,
                 !.inStore = InStore(StoreOf(which), filename),
                 !.status = 404, !.content = "Not found"]

\* The store the file routes behind the catch-all would have served from.
MountedStore == IF Mounted("fileRoutes") THEN ActiveBackend ELSE "Local"

\* A GET request under /api answered by the client-side-routing catch-all
CatchAllGet(op, filename) ==
  /\ pc = "listening"
  /\ Handler(op) = "catchAll"
  /\ (op = "download") = (filename # <<>>)
  /\ resp' = CatchAllResponse(op, filename, MountedStore)
  /\ run' = NoRun
  /\ UNCHANGED <<startupVars, local, remote, pending, totalDeleted>>

\* ------------------------------------------------------------------- list
\* ListResponse without the filter on dot names.
ListResponseNoFilter(which, by, listFail, statFail) ==
  LET store == StoreOf(which)
      names == ReadDir(store)
      thrown == \/ ~store.root
                \/ listFail
                \/ \E i \in 1..Len(names) : names[i] \in statFail
  IN IF thrown
     THEN [NoResp EXCEPT !.op = "list", !.by = by, !.store = which, !.status = 500,
                         !.fields = {"error"}, !.error = "Failed to list files"]
     ELSE [NoResp EXCEPT !.op = "list", !.by = by, !.store = which, !.status = 200,
                         !.fields = {"files"},
                         !.files = [i \in 1..Len(names) |-> [filename |-> names[i]]]]

\* ListResponse with a try/catch around each statSync: an entry whose stat
\* fails is left out and the rest is returned.
ListResponseSkipsFailed(which, by, listFail, statFail) ==
  LET store == StoreOf(which)
      names == SelectSeq(ReadDir(store),
                         LAMBDA n : ~StartsWithDot(n) /\ n \notin statFail)
  IN IF ~store.root \/ listFail
     THEN [NoResp EXCEPT !.op = "list", !.by = by, !.store = which, !.status = 500,
                         !.fields = {"error"}, !.error = "Failed to list files"]
     ELSE [NoResp EXCEPT !.op = "list", !.by = by, !.store = which, !.status = 200,
                         !.fields = {"files"},
                         !.files = [i \in 1..Len(names) |-> [filename |-> names[i]]]]

\* readdirSync, filter out dot names, statSync each; any throw gives 500
ListResponse(which, by, listFail, statFail) ==
  LET store == StoreOf(which)
      names == SelectSeq(ReadDir(store), LAMBDA n : ~StartsWithDot(n))
      thrown == \/ ~store.root
                \/ listFail
                \/ \E i \in 1..Len(names) : names[i] \in statFail
  IN IF thrown
     THEN [NoResp EXCEPT !.op = "list", !.by = by, !.store = which, !.status = 500,
                         !.fields = {"error"}, !.error = "Failed to list files"]
     ELSE [NoResp EXCEPT !.op = "list", !.by = by, !.store = which, !.status = 200,
                         !.fields = {"files"},
                         !.files = [i \in 1..Len(names) |-> [filename |-> names[i]]]]

\* The record of a list request's inputs: what the root held and which calls
\* were made to fail.
ListRun(which, listFail, statFail) ==
  [NoRun EXCEPT !.listed = IF StoreOf(which).root /\ ~listFail
                           THEN ReadDir(StoreOf(which)) ELSE <<>>,
                !.before = StoreOf(which).entries,
                !.after = StoreOf(which).entries,
                !.listFail = listFail \/ ~StoreOf(which).root,
                !.statFail = statFail]

\* Patterns of statSync failures a list request is tried with.
StatFailures == {{}, {Plain(1)}, {Hidden}}

\* GET /api/files/list handled by the fallback route
FbList(listFail, statFail) ==
  /\ pc = "listening"
  /\ Handler("list") = "fbList"
  /\ resp' = ListResponse("Local", "fallback", listFail, statFail)
  /\ run' = ListRun("Local", listFail, statFail)
  /\ UNCHANGED <<startupVars, local, remote, pending, totalDeleted>>

\* --------------------------------------------------------------- download
NotFoundResponse(which, by, filename) ==
  [NoResp EXCEPT !.op = "download", !.by = by, !.store = which,
                 !.filename = filename,
                 !.inStore = InStore(StoreOf(which), filename),
                 !.status = 404, !.fields = {"error"}, !.error = "File not found"]

Transfer(which, filename, path) ==
  [active |-> TRUE, filename |-> filename, path |-> path,
   inStore |-> InStore(StoreOf(which), filename), store |-> which]

\* GET /api/files/download/:filename handled by the fallback route:
\* filePath = path.join(uploadsDir, filename); 404 unless existsSync(filePath);
\* otherwise res.download(filePath) starts the transfer.
FbDownload(filename) ==
  /\ pc = "listening"
  /\ Handler("download") = "fbDownload"
  /\ ~pending.active
  /\ LET filePath == PathJoin(uploadsDir, filename)
     IN IF ~ExistsSync(filePath)
        THEN /\ resp' = NotFoundResponse("Local", "fallback", filename)
             /\ run' = NoRun
             /\ UNCHANGED pending
        ELSE /\ pending' = Transfer("Local", filename, filePath)
             /\ UNCHANGED <<resp, run>>
  /\ UNCHANGED <<startupVars, local, remote, totalDeleted>>

\* The transfer res.download started completes: the file is streamed in full,
\* or the error goes to Express's default handler (404, no JSON body).
SendFile ==
  /\ pending.active
  /\ resp' = IF IsFileAt(pending.store, pending.path)
             THEN [NoResp EXCEPT !.op = "download", !.by = "transfer",
                                 !.store = pending.store,
                                 !.filename = pending.filename,
                                 !.inStore = pending.inStore,
                                 !.status = 200, !.content = "full"]
             ELSE [NoResp EXCEPT !.op = "download", !.by = "express",
                                 !.store = pending.store,
                                 !.filename = pending.filename,
                                 !.inStore = pending.inStore,
                                 !.status = 404, !.content = "Not Found"]
  /\ pending' = NoTransfer
  /\ run' = NoRun
  /\ UNCHANGED <<startupVars, local, remote, totalDeleted>>

\* ------------------------------------------------------------ clear-cache
\* ClearFilter without the exemption of the entry named "test".
ClearFilterNoTest(n) == ~StartsWithDot(n)

\* readdirSync(...).filter(file => !file.startsWith('.') && file !== 'test')
ClearFilter(n) == ~StartsWithDot(n) /\ n # Test

Filtered(store) == SelectSeq(ReadDir(store), ClearFilter)

\* Entries whose statSync is made to fail in a clear-cache run: the directory
\* and one file.  unlinkSync is made to fail on any file.
StatFailable == {Sub, Plain(1)}

\* What can happen to one listed entry: statSync throws, unlinkSync throws,
\* or neither.  A directory is never unlinked, so it has no unlink failure.
Outcomes(files) ==
  { o \in [ { files[i] : i \in 1..Len(files) } -> {"ok", "statErr", "unlinkErr"} ] :
      \A n \in DOMAIN o : /\ IsDirectory(n) => o[n] # "unlinkErr"
                          /\ o[n] = "statErr" => n \in StatFailable }

\* ClearStep with the count incremented before unlinkSync is known to succeed.
ClearStepCountsFirst(acc, file, o) ==
  IF o[file] = "statErr"
  THEN [acc EXCEPT !.errors = Append(@, <<file, "stat failed">>)]
  ELSE IF IsDirectory(file)
  THEN acc
  ELSE IF o[file] = "unlinkErr"
  THEN [acc EXCEPT !.deletedCount = @ + 1,
                   !.errors = Append(@, <<file, "unlink failed">>)]
  ELSE [acc EXCEPT !.deletedCount = @ + 1, !.removed = @ \cup {file}]

\* ClearStep with errors.unshift in place of errors.push.
ClearStepPrepends(acc, file, o) ==
  IF o[file] = "statErr"
  THEN [acc EXCEPT !.errors = <<<<file, "stat failed">>>> \o @]
  ELSE IF IsDirectory(file)
  THEN acc
  ELSE IF o[file] = "unlinkErr"
  THEN [acc EXCEPT !.errors = <<<<file, "unlink failed">>>> \o @]
  ELSE [acc EXCEPT !.deletedCount = @ + 1, !.removed = @ \cup {file}]

\* ClearStep without the unlinkSync call: the file is counted and stays.
ClearStepNoUnlink(acc, file, o) ==
  IF o[file] = "statErr"
  THEN [acc EXCEPT !.errors = Append(@, <<file, "stat failed">>)]
  ELSE IF IsDirectory(file)
  THEN acc
  ELSE [acc EXCEPT !.deletedCount = @ + 1]

\* One iteration of the for loop over the filtered listing.
ClearStep(acc, file, o) ==
  IF o[file] = "statErr"
  THEN [acc EXCEPT !.errors = Append(@, <<file, "stat failed">>)]
  ELSE IF IsDirectory(file)
  THEN acc
  ELSE IF o[file] = "unlinkErr"
  THEN [acc EXCEPT !.errors = Append(@, <<file, "unlink failed">>)]
  ELSE [acc EXCEPT !.deletedCount = @ + 1, !.removed = @ \cup {file}]

RECURSIVE ClearLoopAborting(_, _, _)
\* ClearLoop with the try/catch around the loop instead of inside it: the
\* first failing item ends the loop.
ClearLoopAborting(acc, files, o) ==
  IF files = <<>> THEN acc
  ELSE IF o[Head(files)] \in {"statErr", "unlinkErr"}
       THEN [acc EXCEPT !.errors = Append(@, <<Head(files), "failed">>)]
       ELSE ClearLoopAborting([acc EXCEPT
                                 !.deletedCount = IF IsDirectory(Head(files))
                                                  THEN @ ELSE @ + 1,
                                 !.removed = IF IsDirectory(Head(files))
                                             THEN @ ELSE @ \cup {Head(files)}],
                              Tail(files), o)

RECURSIVE ClearLoop(_, _, _)
\* for (const file of files) { try { stat; skip directory; unlink; count } catch { push } }
ClearLoop(acc, files, o) ==
  IF files = <<>> THEN acc
  ELSE ClearLoop(ClearStep(acc, Head(files), o), Tail(files), o)

LoopStart == [deletedCount |-> 0, errors |-> <<>>, removed |-> {}]

\* if (errors.length > 0) 207 { message, deletedCount, errors }
\* else 200 { message: 'Cache cleared successfully', deletedCount }
Classify(which, by, acc) ==
  IF Len(acc.errors) > 0
  THEN [NoResp EXCEPT !.op = "clear", !.by = by, !.store = which, !.status = 207,
                      !.fields = {"message", "deletedCount", "errors"},
                      !.message = "Cache partially cleared",
                      !.deletedCount = acc.deletedCount, !.errors = acc.errors]
  ELSE [NoResp EXCEPT !.op = "clear", !.by = by, !.store = which, !.status = 200,
                      !.fields = {"message", "deletedCount"},
                      !.message = "Cache cleared successfully",
                      !.deletedCount = acc.deletedCount, !.errors = acc.errors]

\* if (!fs.existsSync(uploadsDir)) return 200 { message: 'No cache to clear' }
NoCacheResponse(which, by) ==
  [NoResp EXCEPT !.op = "clear", !.by = by, !.store = which, !.rootMissing = TRUE,
                 !.status = 200, !.fields = {"message"},
                 !.message = "No cache to clear"]

\* outer catch: 500 { error: 'Failed to clear cache: ...' }
ClearFailedResponse(which, by) ==
  [NoResp EXCEPT !.op = "clear", !.by = by, !.store = which, !.status = 500,
                 !.fields = {"error"}, !.error = "Failed to clear cache"]

\* ClearCache without the existsSync check: readdirSync throws on a missing
\* root and the outer catch answers.
ClearCacheNoExistsCheck(which, by, listFail, o) ==
  LET store == StoreOf(which)
      files == Filtered(store)
      acc == ClearLoop(LoopStart, files, o)
  IN IF ~store.root \/ listFail
     THEN [resp |-> [ClearFailedResponse(which, by) EXCEPT !.rootMissing = ~store.root],
           entries |-> store.entries, run |-> NoRun]
     ELSE [resp |-> Classify(which, by, acc),
           entries |-> store.entries \ acc.removed,
           run |-> [NoRun EXCEPT !.listed = ReadDir(store), !.outcome = o,
                                 !.before = store.entries,
                                 !.after = store.entries \ acc.removed]]

\* ClearCache with the listing failure swallowed: an empty listing is assumed
\* and the aggregated result is returned.
ClearCacheListFailEmpty(which, by, listFail, o) ==
  LET store == StoreOf(which)
      files == Filtered(store)
      acc == ClearLoop(LoopStart, files, o)
  IN IF ~store.root
     THEN [resp |-> NoCacheResponse(which, by), entries |-> store.entries, run |-> NoRun]
     ELSE IF listFail
     THEN [resp |-> Classify(which, by, LoopStart), entries |-> store.entries,
           run |-> [NoRun EXCEPT !.before = store.entries, !.after = store.entries,
                                 !.listFail = TRUE]]
     ELSE [resp |-> Classify(which, by, acc),
           entries |-> store.entries \ acc.removed,
           run |-> [NoRun EXCEPT !.listed = ReadDir(store), !.outcome = o,
                                 !.before = store.entries,
                                 !.after = store.entries \ acc.removed]]

\* The whole POST /api/files/clear-cache handler on one store: the response,
\* the entries left in the store root, and the record of the loop's inputs.
ClearCache(which, by, listFail, o) ==
  LET store == StoreOf(which)
      files == Filtered(store)
      acc == ClearLoop(LoopStart, files, o)
  IN IF ~store.root
     THEN [resp |-> NoCacheResponse(which, by), entries |-> store.entries, run |-> NoRun]
     ELSE IF listFail
     THEN [resp |-> ClearFailedResponse(which, by), entries |-> store.entries,
           run |-> [NoRun EXCEPT !.before = store.entries, !.after = store.entries,
                                 !.listFail = TRUE]]
     ELSE [resp |-> Classify(which, by, acc),
           entries |-> store.entries \ acc.removed,
           run |-> [NoRun EXCEPT !.listed = ReadDir(store), !.outcome = o,
                                 !.before = store.entries,
                                 !.after = store.entries \ acc.removed]]

\* POST /api/files/clear-cache handled by the fallback route
FbClearCache(listFail, o) ==
  /\ pc = "listening"
  /\ Handler("clear") = "fbClearCache"
  /\ LET r == ClearCache("Local", "fallback", listFail, o)
     IN /\ resp' = r.resp
        /\ local' = [local EXCEPT !.entries = r.entries]
        /\ run' = r.run
        /\ totalDeleted' = totalDeleted + r.resp.deletedCount
  /\ UNCHANGED <<startupVars, remote, pending>>

\* The uploads directory is removed from outside the process.
RemoveUploadsDir ==
  /\ pc = "listening"
  /\ local.root
  /\ local' = [root |-> FALSE, entries |-> {}]
  /\ UNCHANGED <<startupVars, remote, pending, resp, run, totalDeleted>>

\* ------------------------------------------------- compiled file router
\* ./dist/routes/fileRoutes: list, download and clear-cache of the File
\* Operations Facade, dispatched to the backend the selector chose.
FrList(listFail, statFail) ==
  /\ pc = "listening"
  /\ Handler("list") = "fileRoutes"
  /\ resp' = ListResponse(ActiveBackend, "fileRoutes", listFail, statFail)
  /\ run' = ListRun(ActiveBackend, listFail, statFail)
  /\ UNCHANGED <<startupVars, local, remote, pending, totalDeleted>>

FrDownload(filename) ==
  /\ pc = "listening"
  /\ Handler("download") = "fileRoutes"
  /\ ~pending.active
  /\ IF ~InStore(StoreOf(ActiveBackend), filename)
     THEN /\ resp' = NotFoundResponse(ActiveBackend, "fileRoutes", filename)
          /\ run' = NoRun
          /\ UNCHANGED pending
     ELSE /\ pending' = Transfer(ActiveBackend, filename, uploadsDir \o filename)
          /\ UNCHANGED <<resp, run>>
  /\ UNCHANGED <<startupVars, local, remote, totalDeleted>>

FrClearCache(listFail, o) ==
  /\ pc = "listening"
  /\ Handler("clear") = "fileRoutes"
  /\ LET r == ClearCache(ActiveBackend, "fileRoutes", listFail, o)
     IN /\ resp' = r.resp
        /\ run' = r.run
        /\ totalDeleted' = totalDeleted + r.resp.deletedCount
        /\ IF ActiveBackend = "Remote"
           THEN remote' = [remote EXCEPT !.entries = r.entries] /\ UNCHANGED local
           ELSE local' = [local EXCEPT !.entries = r.entries] /\ UNCHANGED remote
  /\ UNCHANGED <<startupVars, pending>>

\* ------------------------------------------------------------------ inputs
\* A list request: the enumeration fails, or some statSync calls fail.
ListInputs == { <<TRUE, {}>> } \cup { <<FALSE, sf>> : sf \in StatFailures }

\* A clear-cache request: the enumeration fails, or each listed entry has
\* its own outcome.
ClearInputs(store) ==
  { <<TRUE, [n \in {} |-> "ok"]>> } \cup { <<FALSE, o>> : o \in Outcomes(Filtered(store)) }

\* ----------------------------------------------------------- specification
Startup ==
  \/ \E ok \in BOOLEAN : InitializeStorage(ok)
  \/ \E ok \in BOOLEAN : InitializeCosmosDb(ok)
  \/ \E outcome \in LoadOutcomes : LoadRoutes(outcome)
  \/ Listen

Next ==
  \/ \E ok \in BOOLEAN : InitializeStorage(ok)
  \/ \E ok \in BOOLEAN : InitializeCosmosDb(ok)
  \/ \E outcome \in LoadOutcomes : LoadRoutes(outcome)
  \/ Listen
  \/ HealthCheck
  \/ \E op \in {"list", "health"} : CatchAllGet(op, <<>>)
  \/ \E f \in Filenames : CatchAllGet("download", f)
  \/ \E i \in ListInputs : FbList(i[1], i[2])
  \/ \E f \in Filenames : FbDownload(f)
  \/ SendFile
  \/ \E i \in ClearInputs(local) : FbClearCache(i[1], i[2])
  \/ RemoveUploadsDir
  \/ \E i \in ListInputs : FrList(i[1], i[2])
  \/ \E f \in Filenames : FrDownload(f)
  \/ \E i \in ClearInputs(StoreOf(ActiveBackend)) : FrClearCache(i[1], i[2])

Spec == Init /\ [][Next]_vars

\* startServer() runs to the end: each awaited call settles and the remaining
\* steps are synchronous.
FairSpec == Spec /\ WF_vars(Startup)

\* ================================================================= claims
\* The clear-cache request answered by resp got past the listing step and ran
\* the per-item loop to the end.
LoopCompleted == resp.op = "clear" /\ "deletedCount" \in resp.fields

\* Names of the last run's listing that pass the name filter of clear-cache.
PassedFilter == { n \in run.before : n[1] # "." /\ n # Test }

\* Names reported in errors by the last run.
ErrorNames == { resp.errors[i][1] : i \in 1..Len(resp.errors) }

\* Names the last run removed from the store.
Removed == run.before \ run.after

\* Names the last run skipped as a directory: statSync succeeded and said so.
SkippedAsDirectory ==
  { n \in PassedFilter : n \in Dirs /\ run.outcome[n] # "statErr" }

\* C1 as stated: deletedCount + errors.length equals the number of listed
\* entries that are not hidden, not named "test" and not subdirectories.
C1_AsStated ==
  LoopCompleted =>
    resp.deletedCount + Len(resp.errors)
      = Cardinality({ n \in PassedFilter : n \notin Dirs })

\* C1 amended: deletedCount + errors.length equals the number of listed
\* entries that pass the name filter and were not skipped as a directory (a
\* subdirectory whose stat fails is recorded in errors); every entry passing
\* the name filter is exactly one of skipped, deleted and counted, or in errors.
C1_Aggregation ==
  LoopCompleted =>
    /\ resp.deletedCount + Len(resp.errors)
         = Cardinality(PassedFilter) - Cardinality(SkippedAsDirectory)
    /\ resp.deletedCount = Cardinality(Removed)
    /\ Len(resp.errors) = Cardinality(ErrorNames)
    /\ Removed \cup ErrorNames \cup SkippedAsDirectory = PassedFilter
    /\ Removed \cap ErrorNames = {}
    /\ Removed \cap SkippedAsDirectory = {}
    /\ ErrorNames \cap SkippedAsDirectory = {}

\* A run that deleted a file, failed on a file and failed to stat the directory.
C1_Witness ==
  /\ LoopCompleted
  /\ resp.deletedCount > 0
  /\ Sub \in ErrorNames
  /\ Plain(2) \in ErrorNames

\* C2: a failing item never aborts the batch: every listed file whose stat and
\* delete succeed is removed and counted, wherever it stands in the listing,
\* every failing entry is reported once in errors, and the answer is the
\* aggregated 200/207 result.
C2_NoAbort ==
  LoopCompleted =>
    LET succeeded == { n \in PassedFilter : n \notin Dirs /\ run.outcome[n] = "ok" }
        failed == { n \in PassedFilter : run.outcome[n] # "ok" }
    IN /\ run.after = run.before \ succeeded
       /\ resp.deletedCount = Cardinality(succeeded)
       /\ ErrorNames = failed
       /\ Len(resp.errors) = Cardinality(failed)
       /\ resp.status \in {200, 207}
       /\ resp.status = 207 => "errors" \in resp.fields

\* Eligible x, y, z with only y failing: deletedCount 2, one error naming y.
C2_Witness ==
  /\ LoopCompleted
  /\ {Plain(1), Plain(2), Plain(3)} \subseteq run.before
  /\ run.outcome[Plain(1)] = "ok"
  /\ run.outcome[Plain(2)] = "unlinkErr"
  /\ run.outcome[Plain(3)] = "ok"
  /\ resp.deletedCount = 2
  /\ ErrorNames = {Plain(2)}
  /\ Plain(1) \notin run.after /\ Plain(3) \notin run.after

\* C3 as stated: once Remote Store initialization has failed, every list,
\* download and clear-cache request is answered from the Local Store and every
\* health-check request is answered 200 with blobStorage "fallback".
C3_AsStated ==
  storageOk = "fail" =>
    /\ resp.op \in {"list", "download", "clear"} => resp.store = "Local"
    /\ resp.op = "health" => resp.status = 200 /\ resp.blobStorage = "fallback"

\* C4: Remote Store initialization is attempted exactly once, and after that
\* attempt no step of the startup sequence and no request changes the flag.
C4_SelectedOnce ==
  /\ [](IF pc = "initStorage" THEN initAttempts = 0 ELSE initAttempts = 1)
  /\ [][pc # "initStorage" => blobStorageInitialized' = blobStorageInitialized]_vars

\* The service has selected Remote and has since answered file requests.
C4_Witness ==
  /\ pc = "listening"
  /\ blobStorageInitialized
  /\ cosmosOk = "fail"
  /\ resp.op = "clear"

\* C5 as stated: the store that serves a list, download or clear-cache request
\* is the backend the health endpoint reports.
C5_AsStated ==
  (resp.op \in {"list", "download", "clear"} /\ resp.store # "none")
    => resp.store = ActiveBackend

\* C6 as stated: every health request is answered 200 with status "ok" and
\* blobStorage "connected" exactly when Remote Store initialization succeeded,
\* "fallback" otherwise.
C6_AsStated ==
  resp.op = "health" =>
    /\ resp.status = 200
    /\ resp.bodyStatus = "ok"
    /\ resp.blobStorage = IF storageOk = "ok" THEN "connected" ELSE "fallback"

\* C7: whatever the outcomes of Remote Store initialization, document-database
\* initialization and route loading, startup reaches listening, with the
\* backend decided by the one initialization attempt, and never exits.
C7_AlwaysStarts ==
  /\ <>(pc = "listening")
  /\ [](pc # "exited")
  /\ [](pc = "listening" =>
          /\ storageOk \in {"ok", "fail"}
          /\ blobStorageInitialized = (storageOk = "ok")
          /\ Mounted("fileRoutes") \/ Mounted("fbClearCache"))

\* Listening after all three initializations failed.
C7_Witness ==
  /\ pc = "listening"
  /\ storageOk = "fail"
  /\ cosmosOk = "fail"
  /\ routesLoad = "requireFail"

\* A clear-cache request is handled in this step.
ClearRequest ==
  \/ \E i \in ClearInputs(local) : FbClearCache(i[1], i[2])
  \/ \E i \in ClearInputs(StoreOf(ActiveBackend)) : FrClearCache(i[1], i[2])

\* Whether the root of the store that serves clear-cache exists.
ServingRoot ==
  IF Handler("clear") = "fileRoutes" THEN StoreOf(ActiveBackend).root ELSE local.root

\* C8 as stated: clear-cache on a missing store root returns deletedCount 0 and
\* errors empty together with the nothing-to-clear message.
C8_AsStated ==
  (resp.op = "clear" /\ resp.rootMissing) =>
    /\ resp.status = 200
    /\ resp.message = "No cache to clear"
    /\ "deletedCount" \in resp.fields /\ resp.deletedCount = 0
    /\ "errors" \in resp.fields /\ resp.errors = <<>>

\* C8 amended: clear-cache on a missing store root answers 200 with the
\* nothing-to-clear message alone (no deletedCount, no errors field), changes
\* neither store, and a second such call in a row answers the same.
C8_NothingToClear ==
  [][(~ServingRoot /\ ClearRequest) =>
       /\ resp'.op = "clear"
       /\ resp'.status = 200
       /\ resp'.fields = {"message"}
       /\ resp'.message = "No cache to clear"
       /\ local' = local /\ remote' = remote
       /\ (resp.op = "clear" /\ resp.rootMissing) => resp' = resp]_vars

\* Clear-cache was answered on a missing uploads directory.
C8_Witness ==
  /\ ~local.root
  /\ resp.op = "clear"
  /\ resp.rootMissing
  /\ resp.message = "No cache to clear"

\* C9 as stated: 200 exactly when errors is empty, 207 exactly when some item
\* failed and deletedCount > 0; never 207 when nothing was deleted.
C9_AsStated ==
  LoopCompleted =>
    /\ (resp.status = 200) = (Len(resp.errors) = 0)
    /\ (resp.status = 207) = (Len(resp.errors) > 0 /\ resp.deletedCount > 0)

\* C10 as stated: a download of a name that is not in the active store is
\* answered 404 with an error payload before any transfer is started.
C10_AsStated ==
  /\ (resp.op = "download" /\ ~resp.inStore) =>
        /\ resp.status = 404
        /\ "error" \in resp.fields
        /\ resp.by \notin {"transfer", "express"}
  /\ pending.active => pending.inStore

\* A list request is handled by a file route in this step.
ListRequest == \E i \in ListInputs : FbList(i[1], i[2]) \/ FrList(i[1], i[2])

\* The store the mounted list route reads.
ListedStore == IF Handler("list") = "fileRoutes" THEN StoreOf(ActiveBackend) ELSE local

\* The entries of a root whose name does not start with ".".
Visible(entries) == { n \in entries : n[1] # "." }

\* The names carried by an array of descriptors.
FileNames(files) == { files[i].filename : i \in 1..Len(files) }

\* C11: a successful list returns exactly one descriptor for each root entry
\* whose name does not start with "." and none for a ".name" entry, and the
\* list request leaves both stores as they were (so the same store lists the
\* same set again).
C11_ListExact ==
  [][(resp'.op = "list" /\ ListRequest) =>
       /\ local' = local
       /\ remote' = remote
       /\ (resp'.status = 200 =>
             /\ FileNames(resp'.files) = Visible(ListedStore.entries)
             /\ Len(resp'.files) = Cardinality(Visible(ListedStore.entries)))]_vars

\* A root holding two files and a hidden entry listed without the hidden one.
C11_Witness ==
  /\ resp.op = "list"
  /\ resp.status = 200
  /\ {Plain(1), Hidden, Plain(2)} \subseteq run.before
  /\ {Plain(1), Plain(2)} \subseteq FileNames(resp.files)
  /\ Hidden \notin FileNames(resp.files)

\* The entries of a root that clear-cache must leave alone: hidden entries,
\* the entry named "test", and subdirectories.
Protected(entries) == { n \in entries : n[1] = "." \/ n = Test \/ n \in Dirs }

\* C12 as stated: while the root exists every protected entry that was in it
\* is still there, and no protected entry is counted in deletedCount or
\* reported in errors.
C12_AsStated ==
  /\ local.root => Protected(initialLocal) \subseteq local.entries
  /\ remote.root => Protected(Names) \subseteq remote.entries
  /\ LoopCompleted =>
       /\ Removed \cap Protected(run.before) = {}
       /\ resp.deletedCount = Cardinality(Removed)
       /\ ErrorNames \cap Protected(run.before) = {}

\* C12 amended: while the root exists every protected entry that was in it is
\* still there; no protected entry is removed or counted; a hidden entry and
\* the entry named "test" are never reported in errors, and a subdirectory is
\* reported in errors only when its statSync failed.
C12_ProtectedKept ==
  /\ local.root => Protected(initialLocal) \subseteq local.entries
  /\ remote.root => Protected(Names) \subseteq remote.entries
  /\ LoopCompleted =>
       /\ Removed \cap Protected(run.before) = {}
       /\ resp.deletedCount = Cardinality(Removed)
       /\ \A n \in ErrorNames \cap Protected(run.before) :
            n \in Dirs /\ run.outcome[n] = "statErr"

\* A root holding one file, a hidden entry, "test" and a subdirectory:
\* deletedCount 1, errors empty, only the file removed.
C12_Witness ==
  /\ LoopCompleted
  /\ run.before = {Plain(1), Hidden, Test, Sub}
  /\ run.after = {Hidden, Test, Sub}
  /\ resp.deletedCount = 1
  /\ resp.errors = <<>>
  /\ resp.status = 200

\* C13 as stated: every answer to a list, download or clear-cache request is a
\* success, or a 404 or 500 carrying an error field, or a 207 carrying the
\* errors list.
C13_AsStated ==
  resp.op \in {"list", "download", "clear"} =>
    \/ resp.status = 200
    \/ resp.status \in {404, 500} /\ "error" \in resp.fields
    \/ resp.status = 207 /\ "errors" \in resp.fields

\* The outcome argument of a clear-cache request whose listing failed.
NoOutcome == [n \in {} |-> "ok"]

\* A clear-cache request whose readdirSync throws is handled in this step.
ClearListingFails == FbClearCache(TRUE, NoOutcome) \/ FrClearCache(TRUE, NoOutcome)

\* C14: when the root exists and the listing step of clear-cache fails, the
\* answer is a single 500 with an error message and without deletedCount or
\* errors, nothing is deleted from either store and nothing is counted.
C14_ListingFatal ==
  [][(ServingRoot /\ ClearListingFails) =>
       /\ resp'.op = "clear"
       /\ resp'.status = 500
       /\ resp'.fields = {"error"}
       /\ resp'.deletedCount = 0
       /\ resp'.errors = <<>>
       /\ local' = local
       /\ remote' = remote
       /\ totalDeleted' = totalDeleted]_vars

\* A failed listing answered 500 over a root that still holds its files.
C14_Witness ==
  /\ resp.op = "clear"
  /\ resp.status = 500
  /\ run.listFail
  /\ Plain(1) \in run.before
  /\ run.after = run.before

\* C15: a request is handled only while the server is listening, and the
\* server is listening only after the one Remote Store initialization attempt
\* has succeeded or failed and the backend flag holds its outcome.
C15_ResolvedBeforeServing ==
  /\ (resp.op # "none" \/ pending.active) => pc = "listening"
  /\ pc = "listening" =>
       /\ initAttempts = 1
       /\ storageOk \in {"ok", "fail"}
       /\ blobStorageInitialized = (storageOk = "ok")

\* A health request answered after Remote Store initialization failed.
C15_Witness ==
  /\ pc = "listening"
  /\ storageOk = "fail"
  /\ resp.op = "health"
  /\ resp.by = "health"
  /\ resp.blobStorage = "fallback"

\* C16 as stated: a download whose target was in the store at the existence
\* check, and whose store root is still there, ends with the full file or
\* with the 404 not-found error payload.
C16_AsStated ==
  (resp.op = "download" /\ resp.by \in {"transfer", "express"} /\ resp.inStore
     /\ StoreOf(resp.store).root) =>
    \/ resp.status = 200 /\ resp.content = "full"
    \/ resp.status = 404 /\ "error" \in resp.fields

\* The item names of errors, in the order of the response.
ErrorSeq == [i \in 1..Len(resp.errors) |-> resp.errors[i][1]]

\* C17: the item names in errors are the failing entries in listing order,
\* none repeated, and running the loop over the same entries in the opposite
\* order with the same failing items removes and counts the same files.
C17_ListingOrder ==
  LoopCompleted =>
    LET files == SelectSeq(run.listed, ClearFilter)
        other == ClearLoop(LoopStart, Reverse(files), run.outcome)
    IN /\ ErrorSeq = SelectSeq(files, LAMBDA n : n \in ErrorNames)
       /\ Cardinality(ErrorNames) = Len(resp.errors)
       /\ other.removed = Removed
       /\ other.deletedCount = resp.deletedCount
       /\ { other.errors[i][1] : i \in 1..Len(other.errors) } = ErrorNames

\* A run over the reversed listing with two failing files and one deleted.
C17_Witness ==
  /\ LoopCompleted
  /\ order = Reverse(Order)
  /\ ErrorSeq = <<Plain(3), Plain(1)>>
  /\ Removed = {Plain(2)}

\* The files of a root that clear-cache may delete.
Eligible(entries) == entries \ Protected(entries)

\* The initial content of the store that serves clear-cache.
ServedInitial ==
  IF Mounted("fileRoutes") /\ ActiveBackend = "Remote" THEN Names ELSE initialLocal

\* C18: the sum of deletedCount over all clear-cache responses never exceeds
\* the number of eligible files that have left the stores, nor the number of
\* eligible files the serving store started with; each response counts only
\* files that were in its own listing and that it removed.
C18_CountedOnce ==
  /\ totalDeleted <= Cardinality(Eligible(initialLocal) \ local.entries)
                       + Cardinality(Eligible(Names) \ remote.entries)
  /\ totalDeleted <= Cardinality(Eligible(ServedInitial))
  /\ LoopCompleted =>
       /\ Removed \subseteq Eligible(run.before)
       /\ resp.deletedCount = Cardinality(Removed)
       /\ resp.deletedCount <= totalDeleted

\* Every file has been counted, the last of them by a later request alone.
C18_Witness ==
  /\ LoopCompleted
  /\ totalDeleted = MaxPlain
  /\ resp.deletedCount = 1
  /\ Cardinality(Eligible(run.before)) = 1

\* C19 as stated: once listening, exactly one of the compiled file routes and
\* the fallback file routes is mounted: the compiled ones when route loading
\* succeeded, the fallback ones when it failed.
C19_AsStated ==
  pc = "listening" =>
    /\ Mounted("fileRoutes") # Mounted("fbList")
    /\ Mounted("fbList") = Mounted("fbDownload")
    /\ Mounted("fbList") = Mounted("fbClearCache")
    /\ Mounted("fileRoutes") = (routesLoad = "ok")

\* C20: a list request whose enumeration fails, or whose statSync fails for
\* any entry that is not hidden, is answered 500 with an error payload and no
\* descriptors; a 200 answer holds a descriptor for every entry that is not
\* hidden.
C20_AllOrNothing ==
  (resp.op = "list" /\ resp.by \in {"fallback", "fileRoutes"}) =>
    LET failed == run.listFail \/ Visible(run.before) \cap run.statFail # {}
    IN /\ resp.status \in {200, 500}
       /\ failed => /\ resp.status = 500
                    /\ resp.fields = {"error"}
                    /\ resp.files = <<>>
       /\ resp.status = 200 => Visible(run.before) \subseteq FileNames(resp.files)

\* A listing of two files answered 500 because the stat of one of them failed.
C20_Witness ==
  /\ resp.op = "list"
  /\ resp.status = 500
  /\ ~run.listFail
  /\ run.statFail = {Plain(1)}
  /\ {Plain(1), Plain(2)} \subseteq run.before
  /\ resp.files = <<>>

====
